---- MODULE Spec2Model ----
(***************************************************************************)
(* apimock: a file-based mock HTTP server.                                 *)
(*                                                                         *)
(* A string is a sequence of atoms ("users", "/", ".json", "{", "0", ...). *)
(* The empty string is <<>>.  The walk of the mock directory is the        *)
(* sequence of callback invocations filepath.WalkDir makes when no         *)
(* callback stops it: one entry per directory, one per file, and a second  *)
(* entry (err = TRUE) for a directory whose listing cannot be read.        *)
(***************************************************************************)
EXTENDS Integers, Sequences, FiniteSets, TLC

VARIABLES
    walk,               \* the mock directory as WalkDir traverses it
    workload,           \* per client: the kind of requests it may send
    currentPathParams,  \* the package-level variable of that name
    reqs,               \* per client: the handler invocation serving it
    probe,              \* a direct call of a function: its arguments
    answer              \* a direct call of a function: its result

vars == <<walk, workload, currentPathParams, reqs, probe, answer>>

\* ------------------------------------------------------------------ bounds
MaxFiles == 3       \* files in a mock directory traversed in any order
MaxStore == 2       \* files in a mock directory served by the handler
MaxPieces == 2      \* pieces a template string is assembled from

\* ----------------------------------------------------------------- strings
HasPrefix(s, p) == Len(s) >= Len(p) /\ SubSeq(s, 1, Len(p)) = p

HasSuffix(s, p) == Len(s) >= Len(p) /\ SubSeq(s, Len(s) - Len(p) + 1, Len(s)) = p

TrimPrefix(s, p) == IF HasPrefix(s, p) THEN SubSeq(s, Len(p) + 1, Len(s)) ELSE s

TrimSuffix(s, p) == IF HasSuffix(s, p) THEN SubSeq(s, 1, Len(s) - Len(p)) ELSE s

RECURSIVE Split(_, _)
Split(s, sep) ==
    IF \E i \in 1..Len(s) : s[i] = sep
    THEN LET i == CHOOSE k \in 1..Len(s) :
                      s[k] = sep /\ \A j \in 1..(k - 1) : s[j] # sep
         IN  <<SubSeq(s, 1, i - 1)>> \o Split(SubSeq(s, i + 1, Len(s)), sep)
    ELSE <<s>>

RECURSIVE Join(_, _)
Join(elems, sep) ==
    IF elems = <<>> THEN <<>>
    ELSE IF Len(elems) = 1 THEN elems[1]
    ELSE elems[1] \o sep \o Join(Tail(elems), sep)

\* filepath.Rel(base, target) for a target at or below base
Rel(base, target) ==
    IF target = base THEN <<".">> ELSE TrimPrefix(target, base \o <<"/">>)

\* ------------------------------------------------------- the mock directory
configDir == <<"mock">>

Path(names) == Join([i \in 1..Len(names) |-> <<names[i]>>], <<"/">>)

Below(names) == configDir \o <<"/">> \o Path(names)

JsonFile(names) == Below(names) \o <<".json">>

Url(names) == <<"/">> \o Path(names)

DirEntry(p) == [path |-> p, isDir |-> TRUE, err |-> FALSE]

FileEntry(p) == [path |-> p, isDir |-> FALSE, err |-> FALSE]

ErrEntry(p) == [path |-> p, isDir |-> TRUE, err |-> TRUE]

\* the files a mock directory is populated from, each by the names on its
\* path and its extension
Files ==
    { [names |-> <<"_", "_">>, ext |-> ".json"],
      [names |-> <<"_", "created">>, ext |-> ".json"],
      [names |-> <<"index">>, ext |-> ".json"],
      [names |-> <<"users", "_", "index">>, ext |-> ".json"],
      [names |-> <<"users", "_", "profile">>, ext |-> ".json"],
      [names |-> <<"users", "_">>, ext |-> ".json"],
      [names |-> <<"users", "created">>, ext |-> ".json"],
      [names |-> <<"users", "index">>, ext |-> ".json"],
      [names |-> <<"users", "notes">>, ext |-> ".txt"],
      [names |-> <<"users">>, ext |-> ".json"] }

PathOf(f) == Below(f.names) \o <<f.ext>>

FileUniverse == { PathOf(f) : f \in Files }

\* the complete tree in the order WalkDir visits it (lexical by name)
Listing ==
    << DirEntry(configDir),
       DirEntry(Below(<<"_">>)),
       FileEntry(JsonFile(<<"_", "_">>)),
       FileEntry(JsonFile(<<"_", "created">>)),
       FileEntry(JsonFile(<<"index">>)),
       DirEntry(Below(<<"users">>)),
       DirEntry(Below(<<"users", "_">>)),
       FileEntry(JsonFile(<<"users", "_", "index">>)),
       FileEntry(JsonFile(<<"users", "_", "profile">>)),
       FileEntry(JsonFile(<<"users", "_">>)),
       FileEntry(JsonFile(<<"users", "created">>)),
       FileEntry(JsonFile(<<"users", "index">>)),
       FileEntry(Below(<<"users", "notes">>) \o <<".txt">>),
       FileEntry(JsonFile(<<"users">>)) >>

SubDirs == { Below(<<"_">>), Below(<<"users">>), Below(<<"users", "_">>) }

Under(p, dirs) == \E d \in dirs : HasPrefix(p, d \o <<"/">>)

\* the walk of the tree holding the files `files`, whose directories
\* `bad` cannot be listed: WalkDir reports such a directory a second time,
\* with the error, and has nothing below it to visit
RECURSIVE LexicalFrom(_, _, _)
LexicalFrom(i, files, bad) ==
    IF i > Len(Listing) THEN <<>>
    ELSE LET e == Listing[i]
             rest == LexicalFrom(i + 1, files, bad)
         IN  IF Under(e.path, bad) THEN rest
             ELSE IF e.isDir
                  THEN IF e.path \in bad THEN <<e, ErrEntry(e.path)>> \o rest
                       ELSE IF e.path = configDir
                               \/ \E f \in files : HasPrefix(f, e.path \o <<"/">>)
                            THEN <<e>> \o rest
                            ELSE rest
                  ELSE IF e.path \in files THEN <<e>> \o rest ELSE rest

LexicalWalk(files, bad) == LexicalFrom(1, files, bad)

FileSets(n) == { fs \in SUBSET FileUniverse : Cardinality(fs) <= n }

\* every order of at most n distinct files, after the root directory
AnyOrderWalks(n) ==
    { <<DirEntry(configDir)>> \o [i \in 1..Len(s) |-> FileEntry(s[i])] :
        s \in { t \in UNION { [1..k -> FileUniverse] : k \in 0..n } :
                  \A i, j \in 1..Len(t) : i # j => t[i] # t[j] } }

RequestURLs ==
    { <<"/">>,
      Url(<<"users">>),
      Url(<<"users", "42">>),
      Url(<<"users", "created">>),
      Url(<<"users">>) \o <<"/">>,
      Url(<<"users", "42", "profile">>),
      Url(<<"nope">>),
      Url(<<"42", "created">>) }

\* ------------------------------------------------------- findBestMockFile
RECURSIVE MatchFromAnySegment(_, _, _, _, _)
MatchFromAnySegment(i, mockParts, requestParts, params, underscoreCount) ==
    IF i > Len(mockParts)
    THEN [match |-> TRUE, params |-> params, underscoreCount |-> underscoreCount]
    ELSE IF mockParts[i] = <<"_">>
         THEN MatchFromAnySegment(i + 1, mockParts, requestParts,
                                  Append(params, requestParts[i]), underscoreCount + 1)
         ELSE IF mockParts[i] # requestParts[i]
              THEN [match |-> FALSE, params |-> params,
                    underscoreCount |-> underscoreCount]
              ELSE MatchFromAnySegment(i + 1, mockParts, requestParts, params,
                                       underscoreCount)

\* the loop over mockParts, from position i on
RECURSIVE MatchFrom(_, _, _, _, _)
MatchFrom(i, mockParts, requestParts, params, underscoreCount) ==
    IF i > Len(mockParts)
    THEN [match |-> TRUE, params |-> params, underscoreCount |-> underscoreCount]
    ELSE IF mockParts[i] = <<"_">>
         THEN IF requestParts[i] = <<>>
              THEN [match |-> FALSE, params |-> params,
                    underscoreCount |-> underscoreCount]
              ELSE MatchFrom(i + 1, mockParts, requestParts,
                             Append(params, requestParts[i]), underscoreCount + 1)
         ELSE IF mockParts[i] # requestParts[i]
              THEN [match |-> FALSE, params |-> params,
                    underscoreCount |-> underscoreCount]
              ELSE MatchFrom(i + 1, mockParts, requestParts, params, underscoreCount)

\* the route template of a file: its path without ".json" and without a
\* final "/index", relative to the mock directory, split at "/"
MockParts(baseDir, path) ==
    LET rel0 == TrimSuffix(path, <<".json">>)
        rel1 == IF HasSuffix(rel0, <<"/", "index">>)
                THEN TrimSuffix(rel0, <<"/", "index">>)
                ELSE rel0
    IN  Split(Rel(baseDir, rel1), "/")

ScoreSwapped(requestParts, underscoreCount) == underscoreCount

Score(requestParts, underscoreCount) == Len(requestParts) - underscoreCount

ReplacesBestAboveZero(score, bestScore) ==
    score > (IF bestScore < 0 THEN 0 ELSE bestScore)

ReplacesBest(score, bestScore) == score > bestScore

\* what the callback returns for an entry: TRUE is a non-nil error, which
\* makes WalkDir stop and return it
CallbackContinues(e) == FALSE

CallbackFails(e) == e.err

\* the body of the callback for an entry it does not return early from
Visit(best, e, baseDir, requestParts) ==
    IF e.err \/ e.isDir THEN best
    ELSE IF ~HasSuffix(e.path, <<".json">>) THEN best
    ELSE LET mockParts == MockParts(baseDir, e.path)
         IN  IF Len(mockParts) # Len(requestParts) THEN best
             ELSE LET m == MatchFrom(1, mockParts, requestParts, <<>>, 0)
                      score == Score(requestParts, m.underscoreCount)
                  IN  IF m.match /\ ReplacesBest(score, best.bestScore)
                      THEN [bestMatch |-> e.path, bestParams |-> m.params,
                            bestScore |-> score, walkErr |-> FALSE]
                      ELSE best

RECURSIVE WalkDir(_, _, _, _, _)
WalkDir(w, i, best, baseDir, requestParts) ==
    IF i > Len(w) THEN best
    ELSE IF CallbackFails(w[i]) THEN [best EXCEPT !.walkErr = TRUE]
    ELSE WalkDir(w, i + 1, Visit(best, w[i], baseDir, requestParts),
                 baseDir, requestParts)

findBestMockFile(w, baseDir, requestPath) ==
    WalkDir(w, 1,
            [bestMatch |-> <<>>, bestParams |-> <<>>, bestScore |-> -1,
             walkErr |-> FALSE],
            baseDir, Split(requestPath, "/"))

\* ------------------------------------------------------ replacePathParams
Digits == {"0", "1", "2", "3", "4", "5", "6", "7", "8", "9"}

DigitValue(a) ==
    CASE a = "0" -> 0 [] a = "1" -> 1 [] a = "2" -> 2 [] a = "3" -> 3
      [] a = "4" -> 4 [] a = "5" -> 5 [] a = "6" -> 6 [] a = "7" -> 7
      [] a = "8" -> 8 [] a = "9" -> 9

\* strconv.Atoi of a run of digits (the runs of the model stay far below
\* the 19 digits from which Atoi reports a range error)
RECURSIVE Atoi(_)
Atoi(ds) ==
    IF ds = <<>> THEN 0
    ELSE 10 * Atoi(SubSeq(ds, 1, Len(ds) - 1)) + DigitValue(ds[Len(ds)])

\* the first position from i on that holds no digit
RECURSIVE DigitsEnd(_, _)
DigitsEnd(s, i) ==
    IF i <= Len(s) /\ s[i] \in Digits THEN DigitsEnd(s, i + 1) ELSE i

\* the regular expression \{path\.(\d+)\} matched at position i: the
\* position of the closing brace, or 0 when there is no match at i
MatchEnd(s, i) ==
    IF i + 2 <= Len(s) /\ s[i] = "{" /\ s[i + 1] = "path" /\ s[i + 2] = "."
    THEN LET e == DigitsEnd(s, i + 3)
         IN  IF e > i + 3 /\ e <= Len(s) /\ s[e] = "}" THEN e ELSE 0
    ELSE 0

LookupOneBased(idx, lenView, idxView, match) ==
    IF idx >= 1 /\ idx <= Len(lenView)
    THEN IF idx <= Len(idxView)
         THEN [panic |-> FALSE, text |-> idxView[idx]]
         ELSE [panic |-> TRUE, text |-> <<>>]
    ELSE [panic |-> FALSE, text |-> match]

\* the callback of ReplaceAllStringFunc.  It reads currentPathParams twice,
\* for its length (lenView) and for the element (idxView); indexing past
\* the end of the slice read the second time is a run-time panic
Lookup(idx, lenView, idxView, match) ==
    IF idx < Len(lenView)
    THEN IF idx < Len(idxView)
         THEN [panic |-> FALSE, text |-> idxView[idx + 1]]
         ELSE [panic |-> TRUE, text |-> <<>>]
    ELSE [panic |-> FALSE, text |-> match]

\* ReplaceAllStringFunc: leftmost matches, left to right, not overlapping;
\* the replacement text is not scanned again
RECURSIVE ReplaceFrom(_, _, _, _)
ReplaceFrom(s, i, lenView, idxView) ==
    IF i > Len(s) THEN [panic |-> FALSE, text |-> <<>>]
    ELSE LET e == MatchEnd(s, i)
         IN  IF e = 0
             THEN LET rest == ReplaceFrom(s, i + 1, lenView, idxView)
                  IN  [panic |-> rest.panic, text |-> <<s[i]>> \o rest.text]
             ELSE LET got == Lookup(Atoi(SubSeq(s, i + 3, e - 1)), lenView,
                                    idxView, SubSeq(s, i, e))
                      rest == ReplaceFrom(s, e + 1, lenView, idxView)
                  IN  [panic |-> got.panic \/ rest.panic,
                       text |-> got.text \o rest.text]

\* a call during which currentPathParams keeps the value pathParams
replacePathParams(s, pathParams) == ReplaceFrom(s, 1, pathParams, pathParams)

\* ------------------------------------------------- inputs of the expander
Token(ds) == <<"{", "path", ".">> \o ds \o <<"}">>

\* the well-formed tokens among the pieces, each with the index it names
Tokens ==
    { [piece |-> Token(<<"0">>), n |-> 0],
      [piece |-> Token(<<"1">>), n |-> 1],
      [piece |-> Token(<<"5">>), n |-> 5],
      [piece |-> Token(<<"0", "1">>), n |-> 1],
      [piece |-> Token(<<"1", "0">>), n |-> 10] }

\* malformed tokens and plain text; no piece begins with a digit or a
\* closing brace, so no token straddles two pieces
OtherPieces ==
    { <<"{", "path", ".", "}">>,
      <<"{", "path", ".", "x", "}">>,
      <<"{", "path", "0", "}">>,
      <<"{", "path", ".", "-", "1", "}">>,
      <<"{", "path", ".", "0">>,
      <<"id=">>,
      <<"{">>,
      <<"x", "}">> }

Pieces == { t.piece : t \in Tokens } \cup OtherPieces

PieceLists(n) == UNION { [1..k -> Pieces] : k \in 0..n }

ParamLists ==
    { <<>>,
      << <<"42">> >>,
      << <<"42">>, <<"profile">> >>,
      << Token(<<"1">>), <<"7">> >> }

RECURSIVE Concat(_)
Concat(ps) == IF ps = <<>> THEN <<>> ELSE Head(ps) \o Concat(Tail(ps))

\* ------------------------------------------------------------ the handler
Clients == {"r1", "r2"}

ZeroMock ==
    [Method |-> <<>>, Status |-> 0, Delay |-> 0, Headers |-> {}, Body |-> <<>>]

NoResponse ==
    [sent |-> FALSE, panic |-> FALSE, status |-> 0, headers |-> {}, body |-> <<>>]

\* a handler invocation: the request, the file read for it, the handler's
\* locals, how far it got (looked: findBestMockFile was called; parsed: the
\* file parsed as a descriptor; slept: the delay was taken) and the response
Idle ==
    [pc |-> "idle", method |-> <<>>, url |-> <<>>, data |-> "", openErr |-> FALSE,
     looked |-> FALSE, parsed |-> FALSE, slept |-> FALSE,
     filePath |-> <<>>, pathParams |-> <<>>, seen |-> <<>>,
     mock |-> ZeroMock, resp |-> NoResponse]

NoCall == [fn |-> "none"]

\* ------------------------------------------- direct calls of the functions
InitMatch ==
    /\ walk \in AnyOrderWalks(MaxFiles)
    /\ workload = [c \in Clients |-> "none"]
    /\ currentPathParams = <<>>
    /\ reqs = [c \in Clients |-> Idle]
    /\ probe \in { [fn |-> "findBestMockFile", requestPath |-> TrimPrefix(u, <<"/">>)] :
                     u \in RequestURLs \ {<<"/">>} }
    /\ answer = NoCall

InitWalk ==
    /\ walk \in { LexicalWalk(fs, bad) :
                    fs \in FileSets(MaxFiles),
                    bad \in { b \in SUBSET SubDirs : Cardinality(b) <= 1 } }
    /\ workload = [c \in Clients |-> "none"]
    /\ currentPathParams = <<>>
    /\ reqs = [c \in Clients |-> Idle]
    /\ probe \in { [fn |-> "findBestMockFile", requestPath |-> TrimPrefix(u, <<"/">>)] :
                     u \in RequestURLs \ {<<"/">>} }
    /\ answer = NoCall

CallFindBestMockFile ==
    /\ probe.fn = "findBestMockFile"
    /\ answer = NoCall
    /\ answer' = [fn |-> "findBestMockFile",
                  result |-> findBestMockFile(walk, configDir, probe.requestPath)]
    /\ UNCHANGED <<walk, workload, currentPathParams, reqs, probe>>

NextMatch == CallFindBestMockFile

SpecMatch == InitMatch /\ [][NextMatch]_vars

SpecWalk == InitWalk /\ [][NextMatch]_vars

InitExpand ==
    /\ walk = LexicalWalk({}, {})
    /\ workload = [c \in Clients |-> "none"]
    /\ currentPathParams \in ParamLists
    /\ reqs = [c \in Clients |-> Idle]
    /\ probe \in { [fn |-> "replacePathParams", pieces |-> ps] :
                     ps \in PieceLists(MaxPieces) }
    /\ answer = NoCall

CallReplacePathParams ==
    /\ probe.fn = "replacePathParams"
    /\ answer = NoCall
    /\ answer' = [fn |-> "replacePathParams",
                  result |-> replacePathParams(Concat(probe.pieces), currentPathParams)]
    /\ UNCHANGED <<walk, workload, currentPathParams, reqs, probe>>

NextExpand == CallReplacePathParams

SpecExpand == InitExpand /\ [][NextExpand]_vars

\* ------------------------------------------------- the matching relation
\* stated position by position, for the properties below
Wildcards(t) == { i \in 1..Len(t) : t[i] = <<"_">> }

Matches(t, requestParts) ==
    /\ Len(t) = Len(requestParts)
    /\ \A i \in 1..Len(t) :
          IF i \in Wildcards(t) THEN requestParts[i] # <<>>
          ELSE t[i] = requestParts[i]

\* the request segments at the wildcard positions, left to right
Captured(t, requestParts) ==
    [k \in 1..Cardinality(Wildcards(t)) |->
        requestParts[CHOOSE i \in Wildcards(t) :
                        Cardinality({ j \in Wildcards(t) : j <= i }) = k]]

\* the route template of a .json file of the universe, from the names it
\* was created under: a final "index" names the directory itself
Template(path) ==
    LET f == CHOOSE g \in Files : PathOf(g) = path
        n == IF f.names[Len(f.names)] = "index" THEN Len(f.names) - 1
             ELSE Len(f.names)
    IN  [i \in 1..n |-> <<f.names[i]>>]

Specificity(t) == Len(t) - Cardinality(Wildcards(t))

\* the positions of the walk that hold a .json file matching the request
Matching(w, requestParts) ==
    { i \in 1..Len(w) :
        /\ ~w[i].isDir
        /\ ~w[i].err
        /\ HasSuffix(w[i].path, <<".json">>)
        /\ Matches(Template(w[i].path), requestParts) }

\* position i holds the winner among the positions M: the highest score,
\* which is the fewest wildcards, and the first visited of those
Wins(w, i, M) ==
    \A j \in M :
        /\ Cardinality(Wildcards(Template(w[j].path)))
              >= Cardinality(Wildcards(Template(w[i].path)))
        /\ Specificity(Template(w[j].path)) <= Specificity(Template(w[i].path))
        /\ j < i => Specificity(Template(w[j].path)) < Specificity(Template(w[i].path))

FirstError(w) ==
    IF \E i \in 1..Len(w) : w[i].err
    THEN CHOOSE i \in 1..Len(w) : w[i].err /\ \A j \in 1..(i - 1) : ~w[j].err
    ELSE Len(w) + 1

Found == answer.fn = "findBestMockFile"

ProbeParts == Split(probe.requestPath, "/")

\* C2: the file findBestMockFile returns is scored segment count minus
\* wildcard count, and it is a matching file of the highest score (the
\* fewest wildcards) among all matching files, the first such in the
\* traversal, whatever the order of the traversal.
C2_FewestWildcardsWins ==
    Found =>
        LET M == Matching(walk, ProbeParts)
            res == answer.result
        IN  /\ M = {} => res.bestMatch = <<>>
            /\ M # {} =>
                  \E i \in M :
                      /\ walk[i].path = res.bestMatch
                      /\ res.bestScore = Specificity(Template(walk[i].path))
                      /\ Wins(walk, i, M)

\* two matching files with different wildcard counts, the more specific
\* one visited last, and the call has returned
C2_Witness ==
    /\ Found
    /\ \E i, j \in Matching(walk, ProbeParts) :
          /\ j < i
          /\ Cardinality(Wildcards(Template(walk[j].path)))
                > Cardinality(Wildcards(Template(walk[i].path)))
          /\ answer.result.bestMatch = walk[i].path

\* C4: a returned file's template has as many segments as the request, its
\* literals equal the request's segments, its wildcards face non-empty
\* segments, and the returned parameters are the segments at the wildcard
\* positions, left to right.
C4_ReturnedFileMatches ==
    Found /\ answer.result.bestMatch # <<>> =>
        /\ \E i \in 1..Len(walk) :
              ~walk[i].isDir /\ walk[i].path = answer.result.bestMatch
        /\ Matches(Template(answer.result.bestMatch), ProbeParts)
        /\ answer.result.bestParams
              = Captured(Template(answer.result.bestMatch), ProbeParts)

\* a file with two wildcards was returned, with both captures
C4_Witness ==
    /\ Found
    /\ answer.result.bestMatch # <<>>
    /\ Cardinality(Wildcards(Template(answer.result.bestMatch))) = 2
    /\ Len(answer.result.bestParams) = 2

\* C5: an error on one directory skips only that directory, so a
\* matching file anywhere else in the traversal, also after the error, is
\* considered and the best of them is returned.
C5_ScanSkipsOnlyFailingSubtree ==
    Found =>
        LET M == Matching(walk, ProbeParts)
        IN  M # {} =>
               \E i \in M : walk[i].path = answer.result.bestMatch /\ Wins(walk, i, M)

\* C5, for a callback that returns the error: the first traversal error
\* ends the scan.  The file
\* returned is the best match among the files visited before the error, no
\* file visited after it is considered, and the error is reported.
C5_ScanStopsAtFirstError ==
    Found =>
        LET M == { i \in Matching(walk, ProbeParts) : i < FirstError(walk) }
            res == answer.result
        IN  /\ res.walkErr = (FirstError(walk) <= Len(walk))
            /\ M = {} => res.bestMatch = <<>>
            /\ M # {} => \E i \in M : walk[i].path = res.bestMatch /\ Wins(walk, i, M)

\* a directory failed, a matching file was visited before it and a better
\* one would have been visited after it
C5_Witness ==
    /\ Found
    /\ FirstError(walk) <= Len(walk)
    /\ answer.result.bestMatch # <<>>
    /\ \E j \in Matching(walk, ProbeParts) :
          /\ j > FirstError(walk)
          /\ Specificity(Template(walk[j].path)) > answer.result.bestScore

\* ------------------------------------------------ the expansion, by piece
ExpectedPiece(p, params) ==
    IF \E t \in Tokens : t.piece = p /\ t.n < Len(params)
    THEN params[(CHOOSE t \in Tokens : t.piece = p).n + 1]
    ELSE p

Expected(ps, params) ==
    Concat([i \in 1..Len(ps) |-> ExpectedPiece(ps[i], params)])

\* C8: replacePathParams replaces each token {path.N} whose N is an index
\* into the current parameters with that parameter, leaves every other
\* token and all other text as written, and does not fail.
C8_TokensReplaced ==
    answer.fn = "replacePathParams" =>
        /\ ~answer.result.panic
        /\ answer.result.text = Expected(probe.pieces, currentPathParams)

\* a string with a token in range and a token out of range was expanded
C8_Witness ==
    /\ answer.fn = "replacePathParams"
    /\ Len(currentPathParams) = 1
    /\ probe.pieces = <<Token(<<"0">>), Token(<<"5">>)>>
    /\ answer.result.text = currentPathParams[1] \o Token(<<"5">>)

\* ----------------------------------------------------------- mock files
\* The bytes of a file are one atom; JSONOf gives the JSON value they
\* encode.  A field value carries its JSON type: "strings" (array of
\* strings), "int", "map" (object of strings), "string", "raw" (any value,
\* with its text).
Field(k, t, v) == k :> [t |-> t, v |-> v]

Object(f) == [kind |-> "object", fields |-> f]

DataUniverse ==
    { "garbage", "array", "null", "plain-object", "status-string",
      "empty-object", "body-only", "created", "null-body", "status-200",
      "gone", "refused", "cors", "slow", "get-only" }

JSONOf(bytes) ==
    CASE bytes = "garbage" -> [kind |-> "invalid"]
      [] bytes = "array" -> [kind |-> "array"]
      [] bytes = "null" -> [kind |-> "null"]
      [] bytes = "plain-object" ->
            Object(Field("id", "int", 1) @@ Field("name", "string", <<"Taro">>))
      [] bytes = "status-string" ->
            Object(Field("status", "string", <<"ok">>) @@ Field("data", "raw", <<"[]">>))
      [] bytes = "empty-object" -> Object(<<>>)
      [] bytes = "body-only" -> Object(Field("body", "raw", <<"{a:1}">>))
      [] bytes = "created" ->
            Object(Field("method", "strings", << <<"POST">> >>)
                   @@ Field("status", "int", 201)
                   @@ Field("delay", "int", 1000)
                   @@ Field("headers", "map",
                            { <<"Location", <<"/users/">> \o Token(<<"0">>)>> })
                   @@ Field("body", "raw", <<"id=">> \o Token(<<"0">>)))
      [] bytes = "null-body" -> Object(Field("body", "raw", <<"null">>))
      [] bytes = "status-200" -> Object(Field("status", "int", 200))
      [] bytes = "gone" -> Object(Field("status", "int", 404))
      [] bytes = "refused" ->
            Object(Field("method", "strings", << <<"GET">>, <<"POST">> >>)
                   @@ Field("status", "int", 405)
                   @@ Field("body", "raw", <<"busy">>))
      [] bytes = "cors" ->
            Object(Field("headers", "map",
                         { <<"Access-Control-Allow-Origin", <<"https://app">>>>,
                           <<"Content-Type", <<"text/plain">>>>,
                           <<"X-Second", Token(<<"1">>)>> })
                   @@ Field("body", "raw", Token(<<"0">>) \o <<"+">> \o Token(<<"1">>)))
      [] bytes = "slow" ->
            Object(Field("delay", "int", 100)
                   @@ Field("headers", "map", { <<"X-Id", Token(<<"0">>)>> })
                   @@ Field("body", "raw", <<"id=">> \o Token(<<"0">>)))
      [] bytes = "get-only" ->
            Object(Field("method", "strings", << <<"GET">> >>)
                   @@ Field("body", "raw", <<"[]">>))

\* the JSON type each field of MockResponse accepts; Body, a
\* json.RawMessage, accepts any value
FieldTypes ==
    Field("method", "", "strings") @@ Field("status", "", "int")
    @@ Field("delay", "", "int") @@ Field("headers", "", "map")

GetField(f, k, zero) == IF k \in DOMAIN f THEN f[k].v ELSE zero

\* json.Unmarshal(data, &mock): an error for bytes that are no JSON, for a
\* JSON value that is neither an object nor null, and for a field of the
\* wrong type; unknown fields are ignored and absent fields stay zero
Unmarshal(bytes) ==
    LET j == JSONOf(bytes)
    IN  IF j.kind = "null" THEN [err |-> FALSE, mock |-> ZeroMock]
        ELSE IF j.kind # "object" THEN [err |-> TRUE, mock |-> ZeroMock]
        ELSE [err |-> \E k \in DOMAIN j.fields \cap DOMAIN FieldTypes :
                          j.fields[k].t # FieldTypes[k].v,
              mock |-> [Method |-> GetField(j.fields, "method", <<>>),
                        Status |-> GetField(j.fields, "status", 0),
                        Delay |-> GetField(j.fields, "delay", 0),
                        Headers |-> GetField(j.fields, "headers", {}),
                        Body |-> GetField(j.fields, "body", <<>>)]]

\* ---------------------------------------------------------- mockHandler
SetHeader(h, k, v) == { p \in h : p[1] # k } \cup { <<k, v>> }

CorsWithoutOrigin ==
    { <<"Access-Control-Allow-Methods", <<"GET,POST,PUT,DELETE,OPTIONS">>>>,
      <<"Access-Control-Allow-Headers", <<"*">>>> }

CorsHeaders ==
    { <<"Access-Control-Allow-Origin", <<"*">>>>,
      <<"Access-Control-Allow-Methods", <<"GET,POST,PUT,DELETE,OPTIONS">>>>,
      <<"Access-Control-Allow-Headers", <<"*">>>> }

Sent(status, headers, body) ==
    [sent |-> TRUE, panic |-> FALSE, status |-> status, headers |-> headers,
     body |-> body]

Panicked == [NoResponse EXCEPT !.panic = TRUE]

respondJSON(headers, status, body) ==
    Sent(status, SetHeader(headers, "Content-Type",
                           <<"application/json; charset=utf-8">>), body)

NotFoundBody == <<"error=Not Found">>

ServerErrorBody == <<"error=Server Error">>

MethodNotAllowedBody(allowed) ==
    <<"allow=">> \o Join(allowed, <<",", " ">>) \o <<";error=Method Not Allowed">>

LivenessBody == <<"apimock server is running!">>

MethodAllowedIfFirst(method, allowed) == Len(allowed) = 0 \/ allowed[1] = method

MethodAllowed(method, allowed) ==
    Len(allowed) = 0 \/ \E i \in 1..Len(allowed) : allowed[i] = method

StatusIgnored(status) == 200

DefaultStatus(status) == IF status = 0 THEN 200 ELSE status

Methods == { <<"GET">>, <<"POST">>, <<"OPTIONS">> }

\* every request, against a file that opens; one request per path against
\* a file that does not
Inputs ==
    [method : Methods, url : RequestURLs, data : DataUniverse, openErr : {FALSE}]
    \cup [method : {<<"GET">>}, url : RequestURLs, data : {"body-only"}, openErr : {TRUE}]

RaceInputs ==
    [method : {<<"GET">>},
     url : { Url(<<"users">>), Url(<<"users", "42">>), Url(<<"users", "created">>) },
     data : {"slow", "cors", "body-only"},
     openErr : {FALSE}]

\* the requests a client of each kind may send
Workload(kind) ==
    CASE kind = "any" -> Inputs
      [] kind = "race" -> RaceInputs
      [] kind = "none" -> {}

\* lines 128-194: everything up to the delay
Receive(c) ==
    /\ reqs[c].pc = "idle"
    /\ \E in \in Workload(workload[c]) :
          LET r0 == [reqs[c] EXCEPT !.method = in.method, !.url = in.url,
                                    !.data = in.data, !.openErr = in.openErr]
              found == findBestMockFile(walk, configDir, TrimPrefix(in.url, <<"/">>))
              r1 == [r0 EXCEPT !.looked = TRUE, !.filePath = found.bestMatch,
                               !.pathParams = found.bestParams,
                               !.seen = found.bestParams]
              parsed == Unmarshal(in.data)
              r2 == [r1 EXCEPT !.parsed = TRUE, !.mock = parsed.mock]
          IN  IF in.url = <<"/">>
              THEN /\ reqs' = [reqs EXCEPT ![c] =
                        [r0 EXCEPT !.pc = "done",
                                   !.resp = Sent(200,
                                       { <<"Content-Type", <<"text/plain; charset=utf-8">>>> },
                                       LivenessBody)]]
                   /\ UNCHANGED currentPathParams
              ELSE IF in.method = <<"OPTIONS">>
              THEN /\ reqs' = [reqs EXCEPT ![c] =
                        [r0 EXCEPT !.pc = "done", !.resp = Sent(200, CorsHeaders, <<>>)]]
                   /\ UNCHANGED currentPathParams
              ELSE /\ currentPathParams' = found.bestParams
                   /\ reqs' = [reqs EXCEPT ![c] =
                        IF found.bestMatch = <<>>
                        THEN [r1 EXCEPT !.pc = "done",
                                        !.resp = respondJSON(CorsHeaders, 404, NotFoundBody)]
                        ELSE IF in.openErr
                        THEN [r1 EXCEPT !.pc = "done",
                                        !.resp = respondJSON(CorsHeaders, 500, ServerErrorBody)]
                        ELSE IF parsed.err
                        THEN [r1 EXCEPT !.pc = "done",
                                        !.resp = Sent(200,
                                            SetHeader(CorsHeaders, "Content-Type",
                                                      <<"application/json">>),
                                            <<in.data>>)]
                        ELSE IF ~MethodAllowed(in.method, parsed.mock.Method)
                        THEN [r2 EXCEPT !.pc = "done",
                                        !.resp = respondJSON(CorsHeaders, 405,
                                            MethodNotAllowedBody(parsed.mock.Method))]
                        ELSE IF parsed.mock.Delay > 0
                        THEN [r2 EXCEPT !.pc = "delay", !.slept = TRUE,
                                        !.resp = [NoResponse EXCEPT !.headers = CorsHeaders]]
                        ELSE [r2 EXCEPT !.pc = "headers",
                                        !.resp = [NoResponse EXCEPT !.headers = CorsHeaders]]]
    /\ UNCHANGED <<walk, workload, probe, answer>>

\* line 193: time.Sleep returns
Wake(c) ==
    /\ reqs[c].pc = "delay"
    /\ reqs' = [reqs EXCEPT ![c].pc = "headers"]
    /\ UNCHANGED <<walk, workload, currentPathParams, probe, answer>>

\* The values of currentPathParams a call of replacePathParams can read:
\* the length check reads the value the handler last saw or the present
\* one, the element read reads the present one (other handlers assign the
\* variable with no synchronisation in between).
LengthViews(c) == { reqs[c].seen, currentPathParams }

\* lines 196-201: the loop over mock.Headers
SetHeaders(c) ==
    /\ reqs[c].pc = "headers"
    /\ \E lenView \in LengthViews(c) :
          LET r == reqs[c]
              out == [h \in r.mock.Headers |->
                         ReplaceFrom(h[2], 1, lenView, currentPathParams)]
              keys == { h[1] : h \in r.mock.Headers }
          IN  reqs' = [reqs EXCEPT ![c] =
                  IF \E h \in r.mock.Headers : out[h].panic
                  THEN [r EXCEPT !.pc = "done", !.seen = currentPathParams,
                                 !.resp = Panicked]
                  ELSE [r EXCEPT !.pc = "body", !.seen = currentPathParams,
                                 !.resp.headers =
                                     { p \in r.resp.headers : p[1] \notin keys }
                                     \cup { <<h[1], out[h].text>> : h \in r.mock.Headers }]]
    /\ UNCHANGED <<walk, workload, currentPathParams, probe, answer>>

\* lines 203-223: the status, and the body if there is one
WriteBody(c) ==
    /\ reqs[c].pc = "body"
    /\ \E lenView \in LengthViews(c) :
          LET r == reqs[c]
              status == DefaultStatus(r.mock.Status)
              replacedBody == ReplaceFrom(r.mock.Body, 1, lenView, currentPathParams)
          IN  reqs' = [reqs EXCEPT ![c] =
                  IF Len(r.mock.Body) = 0 \/ r.mock.Body = <<"null">>
                  THEN [r EXCEPT !.pc = "done",
                                 !.resp = Sent(IF status = 200 THEN 204 ELSE status,
                                               r.resp.headers, <<>>)]
                  ELSE IF replacedBody.panic
                  THEN [r EXCEPT !.pc = "done", !.resp = Panicked]
                  ELSE [r EXCEPT !.pc = "done",
                                 !.resp = Sent(status,
                                     SetHeader(r.resp.headers, "Content-Type",
                                               <<"application/json; charset=utf-8">>),
                                     replacedBody.text)]]
    /\ UNCHANGED <<walk, workload, currentPathParams, probe, answer>>

Next == \E c \in Clients : Receive(c) \/ Wake(c) \/ SetHeaders(c) \/ WriteBody(c)

\* one client, any mock directory of at most MaxStore files
Init ==
    /\ walk \in { LexicalWalk(fs, {}) : fs \in FileSets(MaxStore) }
    /\ workload = [c \in Clients |-> IF c = "r1" THEN "any" ELSE "none"]
    /\ currentPathParams = <<>>
    /\ reqs = [c \in Clients |-> Idle]
    /\ probe = NoCall
    /\ answer = NoCall

Spec == Init /\ [][Next]_vars

\* two clients at once, against the directory users.json, users/_.json
InitRace ==
    /\ walk = LexicalWalk({ JsonFile(<<"users">>), JsonFile(<<"users", "_">>) }, {})
    /\ workload = [c \in Clients |-> "race"]
    /\ currentPathParams = <<>>
    /\ reqs = [c \in Clients |-> Idle]
    /\ probe = NoCall
    /\ answer = NoCall

SpecRace == InitRace /\ [][Next]_vars

\* ------------------------------------------------ properties of responses
Done(c) == reqs[c].pc = "done"

InList(m, list) == \E i \in 1..Len(list) : list[i] = m

\* the request went through findBestMockFile
Routed(c) == Done(c) /\ reqs[c].url # <<"/">> /\ reqs[c].method # <<"OPTIONS">>

\* the matched file was read
Served(c) == Routed(c) /\ reqs[c].filePath # <<>> /\ ~reqs[c].openErr

\* the file parsed as a descriptor and its method list admits the request
Admitted(c) ==
    /\ Done(c)
    /\ reqs[c].parsed
    /\ (reqs[c].mock.Method = <<>> \/ InList(reqs[c].method, reqs[c].mock.Method))

RequestParts(c) == Split(TrimPrefix(reqs[c].url, <<"/">>), "/")

\* s expanded with the parameters captured from c's own path
OwnExpansion(c, s) == replacePathParams(s, reqs[c].pathParams).text

ControlFields == {"method", "status", "delay", "headers", "body"}

\* a JSON array, or a JSON object with none of the control fields
PureJson(bytes) ==
    \/ JSONOf(bytes).kind = "array"
    \/ /\ JSONOf(bytes).kind = "object"
       /\ DOMAIN JSONOf(bytes).fields \cap ControlFields = {}

JsonContentType == <<"Content-Type", <<"application/json; charset=utf-8">>>>

\* C1: every placeholder of a response is replaced with the parameters
\* captured from the path of the request the response answers, whatever
\* other requests are in flight; no response fails to be sent.
C1_ParamsScopedToRequest ==
    \A c \in Clients :
        Admitted(c) =>
            /\ reqs[c].resp.sent
            /\ \A h \in reqs[c].mock.Headers :
                  h[1] # "Content-Type" =>
                      <<h[1], OwnExpansion(c, h[2])>> \in reqs[c].resp.headers
            /\ reqs[c].resp.body # <<>> =>
                  reqs[c].resp.body = OwnExpansion(c, reqs[c].mock.Body)

\* C3: a matched file holding pure JSON without the control fields, an
\* array or an object, is the response body as it is, with status 200.
C3_PureJsonReturnedAsIs ==
    \A c \in Clients :
        Served(c) /\ PureJson(reqs[c].data) =>
            /\ reqs[c].resp.status = 200
            /\ reqs[c].resp.body = <<reqs[c].data>>

\* C6: a descriptor whose non-empty method list lacks the request's method
\* is answered 405 with the allowed methods joined by commas and nothing
\* of the descriptor (no delay, no header of its own, not its status or
\* body); otherwise the method check produces no 405: the response is not
\* the Method Not Allowed one, and its status is 405 only as the
\* descriptor's own status.
C6_MethodCheck ==
    \A c \in Clients :
        Done(c) /\ reqs[c].parsed =>
            IF Admitted(c)
            THEN /\ reqs[c].resp.body # MethodNotAllowedBody(reqs[c].mock.Method)
                 /\ reqs[c].resp.status = 405 => reqs[c].mock.Status = 405
            ELSE /\ ~reqs[c].slept
                 /\ reqs[c].resp =
                       [sent |-> TRUE, panic |-> FALSE, status |-> 405,
                        headers |-> CorsHeaders \cup {JsonContentType},
                        body |-> <<"allow=">>
                                 \o Join(reqs[c].mock.Method, <<",", " ">>)
                                 \o <<";error=Method Not Allowed">>]

\* a descriptor with a delay and a header of its own refused a request
C6_Witness ==
    \E c \in Clients :
        /\ Done(c)
        /\ reqs[c].parsed
        /\ ~Admitted(c)
        /\ reqs[c].mock.Delay > 0
        /\ reqs[c].mock.Headers # {}
        /\ reqs[c].resp.status = 405

\* C7: for a descriptor that admits the request the status is the status
\* field, or 200 when it is zero; with a body that is absent, empty or
\* null no body is written and a status of 200 becomes 204; any other
\* body is written, expanded, with the JSON content type and the status.
C7_StatusAndBody ==
    \A c \in Clients :
        Admitted(c) =>
            LET mock == reqs[c].mock
                resp == reqs[c].resp
                effective == IF mock.Status # 0 THEN mock.Status ELSE 200
            IN  /\ resp.sent
                /\ IF mock.Body = <<>> \/ mock.Body = <<"null">>
                   THEN /\ resp.body = <<>>
                        /\ resp.status = IF effective = 200 THEN 204 ELSE effective
                   ELSE /\ resp.status = effective
                        /\ JsonContentType \in resp.headers
                        /\ resp.body = OwnExpansion(c, mock.Body)
                        /\ resp.body # <<>>

\* the descriptor with body {a:1} and no status was answered 200 {a:1}, and
\* this although it was reached through a wildcard
C7_Witness ==
    \E c \in Clients :
        /\ Admitted(c)
        /\ reqs[c].data = "body-only"
        /\ reqs[c].resp.status = 200
        /\ reqs[c].resp.body = <<"{a:1}">>
        /\ reqs[c].pathParams # <<>>

\* C9: a request that is routed gets the Not Found response exactly when
\* no file of the mock directory matches its path; when one matches, the
\* file served from is a matching one.
C9_NotFoundIffNoMatch ==
    \A c \in Clients :
        Routed(c) =>
            LET M == Matching(walk, RequestParts(c))
                notFound == /\ reqs[c].resp.status = 404
                            /\ reqs[c].resp.body = NotFoundBody
            IN  /\ notFound <=> M = {}
                /\ M # {} => \E i \in M : walk[i].path = reqs[c].filePath

\* /users/ was answered Not Found although users/_.json is there
C9_Witness ==
    \E c \in Clients :
        /\ Routed(c)
        /\ reqs[c].url = Url(<<"users">>) \o <<"/">>
        /\ \E i \in 1..Len(walk) : walk[i].path = JsonFile(<<"users", "_">>)
        /\ reqs[c].resp.status = 404

CorsContract ==
    { <<"Access-Control-Allow-Origin", <<"*">>>>,
      <<"Access-Control-Allow-Methods", <<"GET,POST,PUT,DELETE,OPTIONS">>>>,
      <<"Access-Control-Allow-Headers", <<"*">>>> }

\* the parts of C10 that concern / and OPTIONS
RootAndPreflight(c) ==
    /\ reqs[c].url = <<"/">> =>
          reqs[c].resp.body = LivenessBody /\ reqs[c].resp.status = 200
    /\ reqs[c].url # <<"/">> /\ reqs[c].method = <<"OPTIONS">> =>
          /\ reqs[c].resp.status = 200
          /\ reqs[c].resp.body = <<>>
          /\ ~reqs[c].looked

\* C10: every response to a request for another path than /
\* carries Access-Control-Allow-Origin: * and the two other CORS headers;
\* OPTIONS is answered 200 with no body and without looking for a file; /
\* is answered with the liveness text whatever the method.
C10_CorsOnEveryResponse ==
    \A c \in Clients :
        Done(c) /\ reqs[c].resp.sent =>
            /\ RootAndPreflight(c)
            /\ reqs[c].url # <<"/">> => CorsContract \subseteq reqs[c].resp.headers

\* C10, with the descriptor's own headers: every such response carries the three CORS header
\* names, each with its fixed value unless the descriptor served sets a
\* header of that name, whose expanded value then replaces it.
C10_CorsUnlessDescriptorSetsIt ==
    \A c \in Clients :
        Done(c) /\ reqs[c].resp.sent =>
            /\ RootAndPreflight(c)
            /\ reqs[c].url # <<"/">> =>
                  \A p \in CorsContract :
                      \E q \in reqs[c].resp.headers :
                          /\ q[1] = p[1]
                          /\ IF Admitted(c)
                                /\ \E h \in reqs[c].mock.Headers : h[1] = p[1]
                             THEN <<q[1], q[2]>> \in
                                     { <<h[1], OwnExpansion(c, h[2])>> :
                                         h \in reqs[c].mock.Headers }
                             ELSE q[2] = p[2]

\* a descriptor that sets Access-Control-Allow-Origin itself was served
C10_Witness ==
    \E c \in Clients :
        /\ Admitted(c)
        /\ reqs[c].resp.sent
        /\ <<"Access-Control-Allow-Origin", <<"https://app">>>> \in reqs[c].resp.headers
        /\ <<"Access-Control-Allow-Headers", <<"*">>>> \in reqs[c].resp.headers

====
